---- MODULE Spec2Model ----
(***************************************************************************)
(* pgpageshell: the page decoder (page.go, special.go) and the REPL of     *)
(* main.go, as a state machine.                                            *)
(*                                                                         *)
(* A page buffer ([PageSize]byte) is a total function 0..8191 -> byte,     *)
(* kept as a record [b |-> explicit bytes, fill |-> every other byte].     *)
(* A Go slice of the buffer is the pair of its absolute bounds; a slice    *)
(* expression or an index that Go's bounds check refuses is a run-time     *)
(* panic, which ends the process with exit status 2.                       *)
(***************************************************************************)
EXTENDS Integers, Sequences, FiniteSets, TLC

VARIABLES
    pc,           \* position of main: "start", "prompt", "exited"
    argGiven,     \* len(os.Args) >= 2
    statOK,       \* os.Stat(filename) succeeds
    file,         \* the whole pages of the file, a sequence of page buffers
    tailBytes,    \* bytes after the last whole page (fi.Size() % PageSize)
    totalPages,   \* main's totalPages
    currentPage,  \* main's currentPage
    page,         \* main's page (*Page); Nil when no page is loaded
    exitCode,     \* exit status of the process; NoExit while it runs
    out           \* what the last step did: reads attempted, result, output

vars == <<pc, argGiven, statOK, file, tailBytes, totalPages, currentPage, page, exitCode, out>>

----------------------------------------------------------------------------
(* Constants of page.go *)

PageSize == 8192
PageHeaderSize == 24
ItemIdSize == 4
HeapTupleHdrSize == 23
IndexTupleHdrSize == 8

PageTypeHeap == 0
PageTypeBTree == 1
PageTypeHash == 2
PageTypeGiST == 3
PageTypeGIN == 4
PageTypeSPGiST == 5
PageTypeBRIN == 6
PageTypeUnknown == 7

LPUnused == 0
LPNormal == 1
LPRedirect == 2
LPDead == 3

HeapHasNull == 1
HeapHasVarWidth == 2
HeapHasExternal == 4
HeapHasOidOld == 8
HeapXmaxKeyShrLock == 16
HeapComboCID == 32
HeapXmaxExclLock == 64
HeapXmaxLockOnly == 128
HeapXminCommitted == 256
HeapXminInvalid == 512
HeapXminFrozen == 768
HeapXmaxCommitted == 1024
HeapXmaxInvalid == 2048
HeapXmaxIsMulti == 4096
HeapUpdated == 8192
HeapMovedOff == 16384
HeapMovedIn == 32768
HeapNattsMask == 2047

PDHasFreeLines == 1
PDPageFull == 2
PDAllVisible == 4

BTPMeta == 8
HashPageID == 65408
HashOpaqueSize == 16
LHOverflowPage == 1
LHBucketPage == 2
LHBitmapPage == 4
LHMetaPage == 8
LHBucketBeingPopulated == 16
LHBucketBeingSplit == 32
LHBucketNeedsSplitCleanup == 64
LHPageHasDeadTuples == 128
GistPageID == 65409
GINMeta == 8
SPGistPageID == 65410
SPGistMeta == 1
BRINPageTypeMeta == 61585
BRINPageTypeRevmap == 61586
BRINPageTypeRegular == 61587

\* the nil *Page
Nil == [nil |-> TRUE]

\* exit status of a Go program that ends in a run-time panic
PanicExit == 2
NoExit == -1

----------------------------------------------------------------------------
(* Integer helpers: the bit operations of Go on unsigned values *)

RECURSIVE BitAnd(_, _)
BitAnd(a, b) ==
    IF a = 0 \/ b = 0 THEN 0
    ELSE (IF a % 2 = 1 /\ b % 2 = 1 THEN 1 ELSE 0) + 2 * BitAnd(a \div 2, b \div 2)

Min(a, b) == IF a < b THEN a ELSE b

----------------------------------------------------------------------------
(* The page buffer and little-endian reads (encoding/binary) *)

ByteAt(data, i) == IF i \in DOMAIN data.b THEN data.b[i] ELSE data.fill

Uint16(data, off) == ByteAt(data, off) + 256 * ByteAt(data, off + 1)

\* A uint32 is kept as its two 16-bit halves (TLC's integers are 32-bit
\* signed): [hi |-> bits 16..31, lo |-> bits 0..15].
Uint32(data, off) == [lo |-> Uint16(data, off), hi |-> Uint16(data, off + 2)]

W32(n) == [lo |-> n % 65536, hi |-> n \div 65536]

\* w >> k for 15 <= k <= 31, and w & m for a mask m below 2^16
Shr32(w, k) == IF k >= 16 THEN w.hi \div (2 ^ (k - 16)) ELSE w.hi * (2 ^ (16 - k)) + w.lo \div (2 ^ k)

And32(w, m) == BitAnd(w.lo, m)

\* Go's bounds check of a slice expression Data[lo:hi] (or of a slice of such a
\* slice: its capacity runs to the end of the array), on absolute positions.
SliceOK(lo, hi) == 0 <= lo /\ lo <= hi /\ hi <= PageSize

----------------------------------------------------------------------------
(* PageHeader and ItemId *)

PageSz(h) == BitAnd(h.PageSizeVer, 65280)
LayoutVersion(h) == BitAnd(h.PageSizeVer, 255)

\* a plausible slip: the status read as a single bit
FlagsOneBit(lp) == BitAnd(Shr32(lp.Raw, 15), 1)

\* a plausible slip: the status taken from bits 16..17
FlagsShift16(lp) == BitAnd(Shr32(lp.Raw, 16), 3)

Offset(lp) == And32(lp.Raw, 32767)
Flags(lp) == BitAnd(Shr32(lp.Raw, 15), 3)
Length(lp) == BitAnd(Shr32(lp.Raw, 17), 32767)

----------------------------------------------------------------------------
(* Slice accesses: a sequence of attempted ranges <<lo, hi>> stops at the    *)
(* first one Go's bounds check refuses.                                      *)

RangeOK(r) == SliceOK(r[1], r[2])

FirstBad(rs) ==
    IF \E i \in 1..Len(rs) : ~RangeOK(rs[i])
    THEN CHOOSE i \in 1..Len(rs) : ~RangeOK(rs[i]) /\ \A j \in 1..(i - 1) : RangeOK(rs[j])
    ELSE 0

Attempted(rs) == IF FirstBad(rs) = 0 THEN rs ELSE SubSeq(rs, 1, FirstBad(rs))

Panics(rs) == FirstBad(rs) # 0

----------------------------------------------------------------------------
(* Page: SpecialSize, SpecialData, detectPageType, ParsePage *)

\* a plausible slip: the zero page-size byte is not defaulted
EffPageSizeNoDefault(h) == PageSz(h)

\* pageSize := int(h.PageSz()); if pageSize == 0 { pageSize = PageSize }
EffPageSize(h) == IF PageSz(h) = 0 THEN PageSize ELSE PageSz(h)

SpecialSize(p) == EffPageSize(p.Header) - p.Header.Special

\* nil when special >= pageSize, else the slice Data[Special:pageSize]
SpecialData(p) ==
    LET pageSize == EffPageSize(p.Header) IN
    IF p.Header.Special >= pageSize
    THEN [nil |-> TRUE, panic |-> FALSE, lo |-> 0, hi |-> 0, slices |-> <<>>]
    ELSE [nil |-> FALSE,
          panic |-> ~SliceOK(p.Header.Special, pageSize),
          lo |-> p.Header.Special, hi |-> pageSize,
          slices |-> << <<p.Header.Special, pageSize>> >>]

\* The classifier. type is meaningful when panic is FALSE; slices are the slice
\* expressions on the buffer it evaluates, in order, up to a refused one.
detectPageType(h, data) ==
    LET pageSize == EffPageSize(h)
        specialSize == pageSize - h.Special
        sp == h.Special
        w6 == Uint16(data, sp + 6)
        w14 == Uint16(data, sp + 14)
        w12 == Uint16(data, sp + 12)
        r8 == << <<sp, PageSize>>, <<sp + 6, sp + 8>>, <<sp + 6, sp + 8>>, <<sp + 6, sp + 8>> >>
        r16 == << <<sp, PageSize>>, <<sp + 14, sp + 16>>, <<sp + 14, sp + 16>>, <<sp + 12, sp + 14>> >>
        rOther == << <<sp, PageSize>> >>
        Res(t, rs) == [panic |-> FALSE, type |-> t, slices |-> rs]
        Bad(rs) == [panic |-> TRUE, type |-> PageTypeUnknown, slices |-> Attempted(rs)]
    IN
    IF specialSize = 0 THEN Res(PageTypeHeap, <<>>)
    ELSE IF h.Special >= pageSize \/ h.Special < PageHeaderSize THEN Res(PageTypeUnknown, <<>>)
    ELSE IF specialSize = 8 THEN
        IF Panics(r8) THEN Bad(r8)
        ELSE IF w6 = BRINPageTypeMeta \/ w6 = BRINPageTypeRevmap \/ w6 = BRINPageTypeRegular
            THEN Res(PageTypeBRIN, SubSeq(r8, 1, 2))
        ELSE IF w6 = SPGistPageID THEN Res(PageTypeSPGiST, SubSeq(r8, 1, 3))
        ELSE IF w6 = 0 \/ (BitAnd(w6, 65280) = 0 /\ BitAnd(w6, 255) # 0)
            THEN Res(PageTypeGIN, r8)
        ELSE Res(PageTypeUnknown, r8)
    ELSE IF specialSize = 16 THEN
        IF Panics(r16) THEN Bad(r16)
        ELSE IF w14 = HashPageID THEN Res(PageTypeHash, SubSeq(r16, 1, 2))
        ELSE IF w14 = GistPageID THEN Res(PageTypeGiST, SubSeq(r16, 1, 3))
        ELSE IF BitAnd(w12, 65024) = 0 THEN Res(PageTypeBTree, r16)
        ELSE Res(PageTypeUnknown, r16)
    ELSE IF Panics(rOther) THEN Bad(rOther)
    ELSE Res(PageTypeUnknown, rOther)

\* The item-id loop of ParsePage fetches data[off : off+4] for i = 0..numItems-1.
\* a plausible slip: the count rounded up instead of down
NumItemsRoundUp(lower) ==
    IF lower > PageHeaderSize THEN (lower - PageHeaderSize + ItemIdSize - 1) \div ItemIdSize ELSE 0

NumItems(lower) ==
    IF lower > PageHeaderSize THEN (lower - PageHeaderSize) \div ItemIdSize ELSE 0

ItemOff(i) == PageHeaderSize + i * ItemIdSize

\* Index of the first fetch the bounds check refuses, or -1. The offsets grow
\* with i, so a fetch is refused exactly when the last one is, and the first
\* refused one is the first i with ItemOff(i) + 4 > PageSize.
FirstBadItem(numItems) ==
    IF numItems > 0 /\ ~SliceOK(ItemOff(numItems - 1), ItemOff(numItems - 1) + 4)
    THEN (PageSize - PageHeaderSize) \div ItemIdSize
    ELSE -1

ParseHeader(data) ==
    [LSN |-> [xlogid |-> Uint32(data, 0), xrecoff |-> Uint32(data, 4)],
     Checksum |-> Uint16(data, 8),
     Flags |-> Uint16(data, 10),
     Lower |-> Uint16(data, 12),
     Upper |-> Uint16(data, 14),
     Special |-> Uint16(data, 16),
     PageSizeVer |-> Uint16(data, 18),
     PruneXID |-> Uint32(data, 20)]

\* ParsePage: panic "" when it returns; "items" when an item-id fetch is refused,
\* "special" when the classifier's slice is. lastFetch is the end of the last
\* item-id fetch attempted (0 when there is none).
ParsePage(data) ==
    LET h == ParseHeader(data)
        numItems == NumItems(h.Lower)
        bad == FirstBadItem(numItems)
        det == detectPageType(h, data)
        lastFetch == IF numItems = 0 THEN 0
                     ELSE IF bad >= 0 THEN ItemOff(bad) + 4
                     ELSE ItemOff(numItems - 1) + 4
    IN
    IF bad >= 0
    THEN [panic |-> "items", lastFetch |-> lastFetch, slices |-> <<>>, page |-> Nil]
    ELSE IF det.panic
    THEN [panic |-> "special", lastFetch |-> lastFetch, slices |-> det.slices, page |-> Nil]
    ELSE [panic |-> "", lastFetch |-> lastFetch, slices |-> det.slices,
          page |-> [Data |-> data,
                    Header |-> h,
                    Items |-> [i \in 1..numItems |-> [Raw |-> Uint32(data, ItemOff(i - 1))]],
                    PageNum |-> 0,
                    Detected |-> det.type]]

----------------------------------------------------------------------------
(* Tuple header decoders *)

\* d := p.Data[offset:], then the nine field reads of the 23-byte header
HeapHdrRanges(offset) ==
    << <<offset, PageSize>>,
       <<offset, offset + 4>>, <<offset + 4, offset + 8>>, <<offset + 8, offset + 12>>,
       <<offset + 12, offset + 14>>, <<offset + 14, offset + 16>>,
       <<offset + 16, offset + 18>>, <<offset + 18, offset + 20>>,
       <<offset + 20, offset + 22>>, <<offset + 22, offset + 23>> >>

\* a plausible slip: t_hoff read one byte early
ParseHeapTupleHeaderHoffAt21(p, offset) ==
    [panic |-> Panics(HeapHdrRanges(offset)),
     reads |-> Attempted(HeapHdrRanges(offset)),
     t |-> [Xmin |-> Uint32(p.Data, offset),
            Xmax |-> Uint32(p.Data, offset + 4),
            Field3 |-> Uint32(p.Data, offset + 8),
            CtidBlock |-> [hi |-> Uint16(p.Data, offset + 12), lo |-> Uint16(p.Data, offset + 14)],
            CtidOffset |-> Uint16(p.Data, offset + 16),
            Infomask2 |-> Uint16(p.Data, offset + 18),
            Infomask |-> Uint16(p.Data, offset + 20),
            Hoff |-> ByteAt(p.Data, offset + 21)]]

ParseHeapTupleHeader(p, offset) ==
    [panic |-> Panics(HeapHdrRanges(offset)),
     reads |-> Attempted(HeapHdrRanges(offset)),
     t |-> [Xmin |-> Uint32(p.Data, offset),
            Xmax |-> Uint32(p.Data, offset + 4),
            Field3 |-> Uint32(p.Data, offset + 8),
            CtidBlock |-> [hi |-> Uint16(p.Data, offset + 12), lo |-> Uint16(p.Data, offset + 14)],
            CtidOffset |-> Uint16(p.Data, offset + 16),
            Infomask2 |-> Uint16(p.Data, offset + 18),
            Infomask |-> Uint16(p.Data, offset + 20),
            Hoff |-> ByteAt(p.Data, offset + 22)]]

NAttrs(t) == BitAnd(t.Infomask2, HeapNattsMask)

\* `if m&bit != 0 { flags = append(flags, name) }`
FlagName(m, bit, name) == IF BitAnd(m, bit) # 0 THEN <<name>> ELSE <<>>

\* a plausible slip: the xmin bits tested one by one like every other bit
InfomaskFlagsBitTests(t) ==
    LET m == t.Infomask IN
    FlagName(m, HeapHasNull, "HAS_NULL") \o FlagName(m, HeapHasVarWidth, "HAS_VARWIDTH")
    \o FlagName(m, HeapHasExternal, "HAS_EXTERNAL") \o FlagName(m, HeapHasOidOld, "HAS_OID_OLD")
    \o FlagName(m, HeapXmaxKeyShrLock, "XMAX_KEYSHR_LOCK") \o FlagName(m, HeapComboCID, "COMBO_CID")
    \o FlagName(m, HeapXmaxExclLock, "XMAX_EXCL_LOCK") \o FlagName(m, HeapXmaxLockOnly, "XMAX_LOCK_ONLY")
    \o FlagName(m, HeapXminCommitted, "XMIN_COMMITTED") \o FlagName(m, HeapXminInvalid, "XMIN_INVALID")
    \o FlagName(m, HeapXmaxCommitted, "XMAX_COMMITTED") \o FlagName(m, HeapXmaxInvalid, "XMAX_INVALID")
    \o FlagName(m, HeapXmaxIsMulti, "XMAX_IS_MULTI") \o FlagName(m, HeapUpdated, "UPDATED")
    \o FlagName(m, HeapMovedOff, "MOVED_OFF") \o FlagName(m, HeapMovedIn, "MOVED_IN")

InfomaskFlags(t) ==
    LET m == t.Infomask
        xminBits == BitAnd(m, 768)
    IN
    FlagName(m, HeapHasNull, "HAS_NULL") \o FlagName(m, HeapHasVarWidth, "HAS_VARWIDTH")
    \o FlagName(m, HeapHasExternal, "HAS_EXTERNAL") \o FlagName(m, HeapHasOidOld, "HAS_OID_OLD")
    \o FlagName(m, HeapXmaxKeyShrLock, "XMAX_KEYSHR_LOCK") \o FlagName(m, HeapComboCID, "COMBO_CID")
    \o FlagName(m, HeapXmaxExclLock, "XMAX_EXCL_LOCK") \o FlagName(m, HeapXmaxLockOnly, "XMAX_LOCK_ONLY")
    \o (CASE xminBits = HeapXminFrozen -> <<"XMIN_FROZEN">>
           [] xminBits = HeapXminCommitted -> <<"XMIN_COMMITTED">>
           [] xminBits = HeapXminInvalid -> <<"XMIN_INVALID">>
           [] OTHER -> <<>>)
    \o FlagName(m, HeapXmaxCommitted, "XMAX_COMMITTED") \o FlagName(m, HeapXmaxInvalid, "XMAX_INVALID")
    \o FlagName(m, HeapXmaxIsMulti, "XMAX_IS_MULTI") \o FlagName(m, HeapUpdated, "UPDATED")
    \o FlagName(m, HeapMovedOff, "MOVED_OFF") \o FlagName(m, HeapMovedIn, "MOVED_IN")

IndexHdrRanges(offset) ==
    << <<offset, PageSize>>,
       <<offset, offset + 2>>, <<offset + 2, offset + 4>>,
       <<offset + 4, offset + 6>>, <<offset + 6, offset + 8>> >>

ParseIndexTupleHeader(p, offset) ==
    [panic |-> Panics(IndexHdrRanges(offset)),
     reads |-> Attempted(IndexHdrRanges(offset)),
     it |-> [TidBlock |-> [hi |-> Uint16(p.Data, offset), lo |-> Uint16(p.Data, offset + 2)],
             TidOffset |-> Uint16(p.Data, offset + 4),
             Info |-> Uint16(p.Data, offset + 6)]]

----------------------------------------------------------------------------
(* data: printHeapTuples, printIndexTuples, isMeta, CmdData *)

\* what the loop body prints for an item it does not decode
NoTuple(kind, dead) ==
    [kind |-> kind, dead |-> dead, panic |-> FALSE, hdrReads |-> <<>>,
     bitmapReads |-> {}, dataReads |-> <<>>, redirect |-> 0,
     infomask |-> 0, infomaskFlags |-> <<>>]

\* One iteration of printHeapTuples' loop.
HeapItem(p, lp) ==
    LET off == Offset(lp)
        len == Length(lp)
        dead == Flags(lp) = LPDead
        hd == ParseHeapTupleHeader(p, off)
        t == hd.t
        bitmapBytes == (NAttrs(t) + 7) \div 8
        bitmapStart == off + HeapTupleHdrSize
        dataStart == off + t.Hoff
        dataEnd == Min(off + len, PageSize)
        dataLen == dataEnd - dataStart
        dataRanges == IF dataLen > 0
                      THEN << <<dataStart, dataEnd>>, <<dataStart, dataEnd>> >>
                      ELSE <<>>
    IN
    IF Flags(lp) = LPUnused THEN NoTuple("UNUSED", FALSE)
    ELSE IF Flags(lp) = LPRedirect THEN [NoTuple("REDIRECT", FALSE) EXCEPT !.redirect = off]
    ELSE IF Flags(lp) = LPDead /\ len = 0 THEN NoTuple("DEAD_NO_STORAGE", FALSE)
    ELSE IF len = 0 \/ off = 0 THEN NoTuple("NO_STORAGE", dead)
    ELSE IF off + len > PageSize THEN NoTuple("ERROR_BEYOND", dead)
    ELSE IF hd.panic THEN [NoTuple("TUPLE", dead) EXCEPT !.panic = TRUE, !.hdrReads = hd.reads]
    ELSE [kind |-> "TUPLE", dead |-> dead,
          panic |-> Panics(dataRanges),
          hdrReads |-> hd.reads,
          bitmapReads |-> IF BitAnd(t.Infomask, HeapHasNull) # 0
                          THEN {bitmapStart + b : b \in {c \in 0..(bitmapBytes - 1) :
                                                          bitmapStart + c < PageSize}}
                          ELSE {},
          dataReads |-> Attempted(dataRanges),
          redirect |-> 0,
          infomask |-> t.Infomask,
          infomaskFlags |-> InfomaskFlags(t)]

\* a plausible slip: the test for items shorter than the header left out
IndexItemNoShortTest(p, lp) ==
    LET off == Offset(lp)
        len == Length(lp)
        dead == Flags(lp) = LPDead
        hd == ParseIndexTupleHeader(p, off)
        keyStart == off + IndexTupleHdrSize
        keyEnd == Min(off + len, PageSize)
        keyLen == keyEnd - keyStart
        keyRanges == IF keyLen > 0
                     THEN << <<keyStart, keyEnd>>, <<keyStart, keyEnd>> >>
                     ELSE <<>>
    IN
    IF Flags(lp) = LPUnused THEN NoTuple("UNUSED", FALSE)
    ELSE IF Flags(lp) = LPRedirect THEN [NoTuple("REDIRECT", FALSE) EXCEPT !.redirect = off]
    ELSE IF Flags(lp) = LPDead /\ len = 0 THEN NoTuple("DEAD_NO_STORAGE", FALSE)
    ELSE IF len = 0 \/ off = 0 THEN NoTuple("NO_STORAGE", dead)
    ELSE IF off + len > PageSize THEN NoTuple("ERROR_BEYOND", dead)
    ELSE IF hd.panic THEN [NoTuple("TUPLE", dead) EXCEPT !.panic = TRUE, !.hdrReads = hd.reads]
    ELSE [NoTuple("TUPLE", dead) EXCEPT !.panic = Panics(keyRanges),
                                        !.hdrReads = hd.reads,
                                        !.dataReads = Attempted(keyRanges)]

\* One iteration of printIndexTuples' loop.
IndexItem(p, lp) ==
    LET off == Offset(lp)
        len == Length(lp)
        dead == Flags(lp) = LPDead
        hd == ParseIndexTupleHeader(p, off)
        keyStart == off + IndexTupleHdrSize
        keyEnd == Min(off + len, PageSize)
        keyLen == keyEnd - keyStart
        keyRanges == IF keyLen > 0
                     THEN << <<keyStart, keyEnd>>, <<keyStart, keyEnd>> >>
                     ELSE <<>>
        rawRanges == << <<off, off + len>> >>
    IN
    IF Flags(lp) = LPUnused THEN NoTuple("UNUSED", FALSE)
    ELSE IF Flags(lp) = LPRedirect THEN [NoTuple("REDIRECT", FALSE) EXCEPT !.redirect = off]
    ELSE IF Flags(lp) = LPDead /\ len = 0 THEN NoTuple("DEAD_NO_STORAGE", FALSE)
    ELSE IF len = 0 \/ off = 0 THEN NoTuple("NO_STORAGE", dead)
    ELSE IF off + len > PageSize THEN NoTuple("ERROR_BEYOND", dead)
    ELSE IF len < IndexTupleHdrSize
        THEN [NoTuple("TOO_SHORT", dead) EXCEPT !.panic = Panics(rawRanges),
                                                !.dataReads = Attempted(rawRanges)]
    ELSE IF hd.panic THEN [NoTuple("TUPLE", dead) EXCEPT !.panic = TRUE, !.hdrReads = hd.reads]
    ELSE [NoTuple("TUPLE", dead) EXCEPT !.panic = Panics(keyRanges),
                                        !.hdrReads = hd.reads,
                                        !.dataReads = Attempted(keyRanges)]

\* the items a loop gets through: all of them, or up to the one that panics
Processed(items) ==
    IF \E i \in 1..Len(items) : items[i].panic
    THEN SubSeq(items, 1, CHOOSE i \in 1..Len(items) :
                                items[i].panic /\ \A j \in 1..(i - 1) : ~items[j].panic)
    ELSE items

\* a plausible slip: the btree and hash flag word read two bytes too far
isMetaWrongWord(p) ==
    LET special == SpecialData(p)
        len == special.hi - special.lo
        W(k) == Uint16(p.Data, special.lo + k)
    IN
    IF special.panic THEN [panic |-> TRUE, meta |-> FALSE]
    ELSE IF special.nil THEN [panic |-> FALSE, meta |-> FALSE]
    ELSE [panic |-> FALSE,
          meta |->
            CASE p.Detected = PageTypeBTree -> len >= 16 /\ BitAnd(W(14), BTPMeta) # 0
              [] p.Detected = PageTypeHash -> len >= 16 /\ BitAnd(W(14), LHMetaPage) # 0
              [] p.Detected = PageTypeGIN -> len >= 8 /\ BitAnd(W(6), GINMeta) # 0
              [] p.Detected = PageTypeSPGiST -> len >= 2 /\ BitAnd(W(0), SPGistMeta) # 0
              [] p.Detected = PageTypeBRIN -> len >= 8 /\ W(6) = BRINPageTypeMeta
              [] OTHER -> FALSE]

isMeta(p) ==
    LET special == SpecialData(p)
        len == special.hi - special.lo
        W(k) == Uint16(p.Data, special.lo + k)
    IN
    IF special.panic THEN [panic |-> TRUE, meta |-> FALSE]
    ELSE IF special.nil THEN [panic |-> FALSE, meta |-> FALSE]
    ELSE [panic |-> FALSE,
          meta |->
            CASE p.Detected = PageTypeBTree -> len >= 14 /\ BitAnd(W(12), BTPMeta) # 0
              [] p.Detected = PageTypeHash -> len >= 14 /\ BitAnd(W(12), LHMetaPage) # 0
              [] p.Detected = PageTypeGIN -> len >= 8 /\ BitAnd(W(6), GINMeta) # 0
              [] p.Detected = PageTypeSPGiST -> len >= 2 /\ BitAnd(W(0), SPGistMeta) # 0
              [] p.Detected = PageTypeBRIN -> len >= 8 /\ W(6) = BRINPageTypeMeta
              [] OTHER -> FALSE]

printHeapTuples(p) ==
    LET items == Processed([i \in 1..Len(p.Items) |-> HeapItem(p, p.Items[i])])
    IN [panic |-> \E i \in 1..Len(items) : items[i].panic,
        path |-> "heap", metaSkipped |-> FALSE, items |-> items]

printIndexTuples(p) ==
    LET m == isMeta(p)
        items == Processed([i \in 1..Len(p.Items) |-> IndexItem(p, p.Items[i])])
    IN
    IF m.panic THEN [panic |-> TRUE, path |-> "index", metaSkipped |-> FALSE, items |-> <<>>]
    ELSE IF m.meta THEN [panic |-> FALSE, path |-> "index", metaSkipped |-> TRUE, items |-> <<>>]
    ELSE [panic |-> \E i \in 1..Len(items) : items[i].panic,
          path |-> "index", metaSkipped |-> FALSE, items |-> items]

\* strings.Join(parts, sep): the parts with sep between neighbours
RECURSIVE Join(_, _)
Join(parts, sep) ==
    IF Len(parts) <= 1 THEN parts
    ELSE <<parts[1], sep>> \o Join(Tail(parts), sep)

\* a plausible slip: an empty set rendered as the empty string, as elsewhere
FlagsStringEmptyForNone(flags) ==
    Join(FlagName(flags, PDHasFreeLines, "HAS_FREE_LINES")
            \o FlagName(flags, PDPageFull, "PAGE_FULL")
            \o FlagName(flags, PDAllVisible, "ALL_VISIBLE"), " | ")

\* the returned string, as the sequence of its pieces
FlagsString(flags) ==
    LET parts == FlagName(flags, PDHasFreeLines, "HAS_FREE_LINES")
                    \o FlagName(flags, PDPageFull, "PAGE_FULL")
                    \o FlagName(flags, PDAllVisible, "ALL_VISIBLE")
    IN IF Len(parts) = 0 THEN <<"none">> ELSE Join(parts, " | ")

FreeSpace(h) == IF h.Upper > h.Lower THEN h.Upper - h.Lower ELSE 0

CountFlags(p, f) == Cardinality({i \in 1..Len(p.Items) : Flags(p.Items[i]) = f})

\* a plausible slip: only the unknown type is kept away from the index pathway
IsIndexHeapToo(p) == p.Detected # PageTypeUnknown

IsIndex(p) == p.Detected # PageTypeHeap /\ p.Detected # PageTypeUnknown

CmdData(p) ==
    LET tuples == IF IsIndex(p) THEN printIndexTuples(p) ELSE printHeapTuples(p)
    IN [cmd |-> "data",
        panic |-> tuples.panic,
        table |-> [i \in 1..Len(p.Items) |->
                     [index |-> i, status |-> Flags(p.Items[i]), offset |-> Offset(p.Items[i]),
                      length |-> Length(p.Items[i]), raw |-> p.Items[i].Raw]],
        path |-> tuples.path,
        metaSkipped |-> tuples.metaSkipped,
        items |-> tuples.items,
        summary |-> IF tuples.panic THEN <<>>
                    ELSE << Len(p.Items), CountFlags(p, LPNormal), CountFlags(p, LPDead),
                            CountFlags(p, LPUnused), CountFlags(p, LPRedirect),
                            FreeSpace(p.Header) >>]

----------------------------------------------------------------------------
(* info: CmdInfo and the meta decoders it dispatches to *)

BTreeMagic == 340322
HashMagic == 105121344
\* 0xA8109CFA, as its two halves
BRINMetaMagicHi == 43024
BRINMetaMagicLo == 40186

NoMeta == [kind |-> "none", start |-> 0, magic |-> W32(0), indicator |-> "none", fields |-> [none |-> 0]]

\* le.Uint64: the low 32-bit word first
Uint64(data, off) == [lo |-> Uint32(data, off), hi |-> Uint32(data, off + 4)]

\* Each meta decoder reads its record from d := p.Data[offset:] with offset 24
\* (the guard offset+N > PageSize is never true); the magic decides only the
\* "(valid)" / "(INVALID!)" annotation, and every field is printed either way.
BTreeMetaAt(p, offset) ==
    LET magic == Uint32(p.Data, offset) IN
    [kind |-> "btree", start |-> offset, magic |-> magic,
     indicator |-> IF magic = W32(BTreeMagic) THEN "valid" ELSE "INVALID",
     fields |-> [version |-> Uint32(p.Data, offset + 4), root |-> Uint32(p.Data, offset + 8),
                 level |-> Uint32(p.Data, offset + 12), fastroot |-> Uint32(p.Data, offset + 16),
                 fastlevel |-> Uint32(p.Data, offset + 20)]]

\* a plausible slip: an invalid magic ends the decoding
DecodeBTreeMetaStopsOnInvalid(p) ==
    IF Uint32(p.Data, 24) = W32(BTreeMagic) THEN BTreeMetaAt(p, 24)
    ELSE [BTreeMetaAt(p, 24) EXCEPT !.fields = [none |-> 0]]

DecodeBTreeMeta(p) == BTreeMetaAt(p, 24)

HashMetaAt(p, offset) ==
    LET magic == Uint32(p.Data, offset) IN
    [kind |-> "hash", start |-> offset, magic |-> magic,
     indicator |-> IF magic = W32(HashMagic) THEN "valid" ELSE "INVALID",
     fields |-> [version |-> Uint32(p.Data, offset + 4), ntuples |-> Uint64(p.Data, offset + 8),
                 ffactor |-> Uint16(p.Data, offset + 16), bsize |-> Uint16(p.Data, offset + 18),
                 bmsize |-> Uint16(p.Data, offset + 20), bmshift |-> Uint16(p.Data, offset + 22),
                 maxbucket |-> Uint32(p.Data, offset + 24), highmask |-> Uint32(p.Data, offset + 28),
                 lowmask |-> Uint32(p.Data, offset + 32), ovflpoint |-> Uint32(p.Data, offset + 36),
                 firstfree |-> Uint32(p.Data, offset + 40), nmaps |-> Uint32(p.Data, offset + 44)]]

\* a plausible slip: the content area taken to start at byte 32
DecodeHashMetaAt32(p) == HashMetaAt(p, 32)

DecodeHashMeta(p) == HashMetaAt(p, 24)

\* GinMetaPageData has no magic word: no annotation is printed
DecodeGINMeta(p) ==
    [kind |-> "gin", start |-> 24, magic |-> W32(0), indicator |-> "none",
     fields |-> [head |-> Uint32(p.Data, 24), tail |-> Uint32(p.Data, 28),
                 tailFreeSize |-> Uint32(p.Data, 32), nPendingPages |-> Uint32(p.Data, 36),
                 nPendingHeapTuples |-> Uint64(p.Data, 40), nTotalPages |-> Uint32(p.Data, 48),
                 nEntryPages |-> Uint32(p.Data, 52), nDataPages |-> Uint32(p.Data, 56),
                 nEntries |-> Uint64(p.Data, 64)]]

DecodeBRINMeta(p) ==
    LET magic == Uint32(p.Data, 24) IN
    [kind |-> "brin", start |-> 24, magic |-> magic,
     indicator |-> IF magic = [hi |-> BRINMetaMagicHi, lo |-> BRINMetaMagicLo]
                   THEN "valid" ELSE "INVALID",
     fields |-> [version |-> Uint32(p.Data, 28), pagesPerRange |-> Uint32(p.Data, 32),
                 lastRevmapPage |-> Uint32(p.Data, 36)]]

GistOpaqueSize == 16

\* fmt's %X and %08X of a 32-bit value
HexChars == <<"0", "1", "2", "3", "4", "5", "6", "7", "8", "9", "A", "B", "C", "D", "E", "F">>

Nibbles16(n) == << n \div 4096, (n \div 256) % 16, (n \div 16) % 16, n % 16 >>

Hex08X(w) == [i \in 1..8 |-> HexChars[(Nibbles16(w.hi) \o Nibbles16(w.lo))[i] + 1]]

RECURSIVE StripZeros(_)
StripZeros(t) == IF Len(t) > 1 /\ t[1] = "0" THEN StripZeros(Tail(t)) ELSE t

HexX(w) == StripZeros(Hex08X(w))

NoGist == [decoded |-> FALSE, nsn |-> <<>>, rightlink |-> W32(0), flags |-> 0, pageID |-> 0]

\* DecodeGiSTSpecial on the slice Data[lo:hi]:
\* nsn := uint64(nsnLo)<<32 | uint64(nsnHi), printed as nsn>>32 "/" nsn&0xFFFFFFFF
DecodeGiSTSpecial(data, lo, hi) ==
    IF hi - lo < GistOpaqueSize THEN NoGist
    ELSE LET nsnLo == Uint32(data, lo)
             nsnHi == Uint32(data, lo + 4)
             nsn == [hi |-> nsnLo, lo |-> nsnHi]
         IN [decoded |-> TRUE,
             nsn |-> HexX(nsn.hi) \o <<"/">> \o Hex08X(nsn.lo),
             rightlink |-> Uint32(data, lo + 8),
             flags |-> Uint16(data, lo + 12),
             pageID |-> Uint16(data, lo + 14)]

hashFlags(f) ==
    LET pageType == BitAnd(f, 15) IN
    (CASE pageType = LHOverflowPage -> <<"LH_OVERFLOW_PAGE">>
       [] pageType = LHBucketPage -> <<"LH_BUCKET_PAGE">>
       [] pageType = LHBitmapPage -> <<"LH_BITMAP_PAGE">>
       [] pageType = LHMetaPage -> <<"LH_META_PAGE">>
       [] pageType = 0 -> <<"LH_UNUSED_PAGE">>
       [] OTHER -> <<>>)
    \o FlagName(f, LHBucketBeingPopulated, "LH_BUCKET_BEING_POPULATED")
    \o FlagName(f, LHBucketBeingSplit, "LH_BUCKET_BEING_SPLIT")
    \o FlagName(f, LHBucketNeedsSplitCleanup, "LH_BUCKET_NEEDS_SPLIT_CLEANUP")
    \o FlagName(f, LHPageHasDeadTuples, "LH_PAGE_HAS_DEAD_TUPLES")

NoHash == [decoded |-> FALSE, flag |-> 0, flagNames |-> <<>>, pageID |-> 0]

\* DecodeHashSpecial on the slice Data[lo:hi]
DecodeHashSpecial(data, lo, hi) ==
    IF hi - lo < HashOpaqueSize THEN NoHash
    ELSE [decoded |-> TRUE,
          flag |-> Uint16(data, lo + 12),
          flagNames |-> hashFlags(Uint16(data, lo + 12)),
          pageID |-> Uint16(data, lo + 14)]

CmdInfo(p) ==
    LET h == p.Header
        special == SpecialData(p)
        lo == special.lo
        \* the flag word CmdInfo slices out of special for the detected type
        flagRange ==
            CASE p.Detected \in {PageTypeBTree, PageTypeHash} -> << <<lo + 12, lo + 14>> >>
              [] p.Detected \in {PageTypeGIN, PageTypeBRIN} -> << <<lo + 6, lo + 8>> >>
              [] OTHER -> <<>>
        empty == special.nil \/ SpecialSize(p) = 0
        meta ==
            CASE p.Detected = PageTypeBTree /\ BitAnd(Uint16(p.Data, lo + 12), BTPMeta) # 0
                    -> DecodeBTreeMeta(p)
              [] p.Detected = PageTypeHash /\ BitAnd(Uint16(p.Data, lo + 12), LHMetaPage) # 0
                    -> DecodeHashMeta(p)
              [] p.Detected = PageTypeGIN /\ BitAnd(Uint16(p.Data, lo + 6), GINMeta) # 0
                    -> DecodeGINMeta(p)
              [] p.Detected = PageTypeBRIN /\ Uint16(p.Data, lo + 6) = BRINPageTypeMeta
                    -> DecodeBRINMeta(p)
              [] OTHER -> NoMeta
        slices == IF special.panic \/ empty THEN special.slices
                  ELSE special.slices \o Attempted(flagRange)
        panic == special.panic \/ (~empty /\ Panics(flagRange))
    IN [cmd |-> "info",
        panic |-> panic,
        slices |-> slices,
        detected |-> p.Detected,
        flags |-> h.Flags,
        flagsStr |-> FlagsString(h.Flags),
        pageSz |-> PageSz(h),
        version |-> LayoutVersion(h),
        numItems |-> NumItems(h.Lower),
        freeSpace |-> FreeSpace(h),
        specialSize |-> SpecialSize(p),
        region |-> IF panic THEN "panic" ELSE IF empty THEN "empty" ELSE "decoded",
        meta |-> IF panic \/ empty THEN NoMeta ELSE meta,
        gist |-> IF ~panic /\ ~empty /\ p.Detected = PageTypeGiST
                 THEN DecodeGiSTSpecial(p.Data, special.lo, special.hi) ELSE NoGist,
        hash |-> IF ~special.panic /\ ~empty /\ p.Detected = PageTypeHash
                 THEN DecodeHashSpecial(p.Data, special.lo, special.hi) ELSE NoHash]

----------------------------------------------------------------------------
(* format: CmdFormat; cat: CmdCat *)

TotalCols == 60

RECURSIVE SumSeq(_)
SumSeq(xs) == IF xs = <<>> THEN 0 ELSE Head(xs) + SumSeq(Tail(xs))

\* the five region sizes of the proportional view: H, L, ., T, S
RegionSizes(p) ==
    LET h == p.Header IN
    << PageHeaderSize, h.Lower - PageHeaderSize, h.Upper - h.Lower,
       h.Special - h.Upper, EffPageSize(h) - h.Special >>

\* the regions the layout view prints, as <<start, end, size>>
LayoutRegions(p) ==
    LET h == p.Header
        all == << <<0, PageHeaderSize, TRUE>>,
                  <<PageHeaderSize, h.Lower, h.Lower > PageHeaderSize>>,
                  <<h.Lower, h.Upper, h.Upper > h.Lower>>,
                  <<h.Upper, h.Special, h.Special > h.Upper>>,
                  <<h.Special, EffPageSize(h), EffPageSize(h) > h.Special>> >>
        shown == SelectSeq(all, LAMBDA r : r[3] /\ r[2] - r[1] > 0)
    IN [i \in 1..Len(shown) |-> <<shown[i][1], shown[i][2], shown[i][2] - shown[i][1]>>]

\* a plausible slip: the remainder pass left out
ProportionalColsNoRemainderPass(sizes) ==
    LET pos == {i \in 1..Len(sizes) : sizes[i] > 0}
        remaining == TotalCols - Cardinality(pos)
        totalSize == SumSeq([i \in 1..Len(sizes) |-> IF i \in pos THEN sizes[i] ELSE 0])
    IN
    IF totalSize > 0 /\ remaining > 0
    THEN [i \in 1..Len(sizes) |->
            IF i \in pos THEN 1 + (sizes[i] * remaining) \div totalSize ELSE 0]
    ELSE [i \in 1..Len(sizes) |-> IF i \in pos THEN 1 ELSE 0]

ProportionalCols(sizes) ==
    LET pos == {i \in 1..Len(sizes) : sizes[i] > 0}
        remaining == TotalCols - Cardinality(pos)
        totalSize == SumSeq([i \in 1..Len(sizes) |-> IF i \in pos THEN sizes[i] ELSE 0])
        cols0 == [i \in 1..Len(sizes) |-> IF i \in pos THEN 1 ELSE 0]
        cols1 == [i \in 1..Len(sizes) |->
                    IF i \in pos THEN 1 + (sizes[i] * remaining) \div totalSize ELSE 0]
        used == SumSeq(cols1)
        \* the remainder pass: one more column for the first regions, while used < 60
        bump(i) == i \in pos /\ Cardinality({j \in pos : j < i}) < TotalCols - used
    IN
    IF totalSize > 0 /\ remaining > 0
    THEN [i \in 1..Len(sizes) |-> IF bump(i) THEN cols1[i] + 1 ELSE cols1[i]]
    ELSE cols0

CmdFormat(p) ==
    [cmd |-> "format",
     panic |-> FALSE,
     pageSize |-> EffPageSize(p.Header),
     detected |-> p.Detected,
     regions |-> LayoutRegions(p),
     numItems |-> IF p.Header.Lower > PageHeaderSize
                  THEN (p.Header.Lower - PageHeaderSize) \div ItemIdSize ELSE 0,
     cols |-> ProportionalCols(RegionSizes(p))]

CmdCat(p) ==
    [cmd |-> "cat", panic |-> FALSE, rows |-> PageSize \div 16,
     first |-> [j \in 0..15 |-> ByteAt(p.Data, j)]]

----------------------------------------------------------------------------
(* Page buffers the file may hold *)

LE16(pos, v) == (pos :> (v % 256)) @@ ((pos + 1) :> ((v \div 256) % 256))

LE32(pos, w) == LE16(pos, w.lo) @@ LE16(pos + 2, w.hi)

\* the raw item-id word holding (status, offset, length)
ItemRaw(status, offset, length) ==
    [lo |-> offset + 32768 * (status % 2), hi |-> (status \div 2) + 2 * length]

RECURSIVE ItemBytes(_, _)
ItemBytes(raws, i) ==
    IF i > Len(raws) THEN <<>>
    ELSE LE32(ItemOff(i - 1), raws[i]) @@ ItemBytes(raws, i + 1)

\* A buffer with the given header offsets and item-id words; every byte not
\* set here (or by patch) is fill.
MkData(fill, lower, upper, special, psv, raws, patch) ==
    [fill |-> fill,
     b |-> LE16(12, lower) @@ LE16(14, upper) @@ LE16(16, special) @@ LE16(18, psv)
             @@ ItemBytes(raws, 1) @@ patch]

\* the two 16-bit words that end a page of size pageEnd
TailWords(pageEnd, prevWord, lastWord) == LE16(pageEnd - 4, prevWord) @@ LE16(pageEnd - 2, lastWord)

MaxItems == 2
MaxPages == 2

PsvSamples == {4, 8196, 4100, 8452, 65284}

SpecialSamples ==
    {0, 16, 23, 24, 4080, 4088, 8000, 8176, 8184, 8191, 8192, 8193, 8432, 8440, 9000, 65535}

\* <<word before the last, last word>> of the special region
TailSamples ==
    { <<0, 0>>, <<3, 0>>, <<8, 0>>, <<511, 0>>, <<512, 0>>, <<8, 65408>>, <<2, 65408>>,
      <<0, 65409>>, <<0, 65410>>, <<0, 61585>>, <<0, 61586>>, <<0, 61587>>, <<0, 61588>>,
      <<0, 8>>, <<0, 255>>, <<0, 256>>, <<65535, 65535>> }

LowerSamples == {0, 23, 25, 8192, 8195, 8196, 8200, 65535} \cup {24 + k : k \in 0..(4 * MaxItems + 3)}

OffsetSamples == {0, 100, 8136, 8170, 8180, 8191, 32767}
LengthSamples == {0, 4, 12, 23, 56, 32767}

ItemSamples ==
    {ItemRaw(st, off, len) : st \in 0..3, off \in OffsetSamples, len \in LengthSamples}

MoreItems == {ItemRaw(LPNormal, 8136, 56), ItemRaw(LPUnused, 0, 0), ItemRaw(LPNormal, 8180, 12)}

RECURSIVE SeqsUpTo(_, _)
SeqsUpTo(S, n) ==
    IF n = 0 THEN {<<>>}
    ELSE SeqsUpTo(S, n - 1) \cup {Append(q, x) : q \in {r \in SeqsUpTo(S, n - 1) : Len(r) = n - 1}, x \in S}

ItemSeqs == {<<x>> \o q : x \in ItemSamples, q \in SeqsUpTo(MoreItems, MaxItems - 1)}

\* <<special, tail words>>: a heap page, an unknown page, a btree leaf, a btree meta page
KindSamples == { <<8192, <<0, 0>> >>, <<8000, <<0, 0>> >>, <<8176, <<3, 0>> >>, <<8176, <<8, 0>> >> }

HeaderInputs ==
    {MkData(0, 24, sp, sp, psv, <<>>, TailWords(PageSize, tw[1], tw[2]) @@ TailWords(4096, tw[1], tw[2])) :
        sp \in SpecialSamples, psv \in PsvSamples, tw \in TailSamples}

LowerInputs ==
    {MkData(fill, lower, 8192, 8192, 8196, <<>>, <<>>) : fill \in {0, 255}, lower \in LowerSamples}

ItemInputs ==
    {MkData(0, 24 + 4 * Len(raws), upper, k[1], 8196, raws, TailWords(PageSize, k[2][1], k[2][2])) :
        raws \in ItemSeqs, upper \in {8000, 8192}, k \in KindSamples}

\* magic words found at byte 24 of a meta page: the three valid ones and two others
MagicSamples ==
    { W32(BTreeMagic), W32(HashMagic), [hi |-> BRINMetaMagicHi, lo |-> BRINMetaMagicLo],
      W32(0), W32(BTreeMagic + 1) }

\* <<special, bytes of the special region>> of the meta page of btree, hash,
\* gin, brin and spgist
MetaKinds ==
    { <<8176, TailWords(PageSize, 8, 0)>>,
      <<8176, TailWords(PageSize, 8, 65408)>>,
      <<8184, TailWords(PageSize, 0, 8)>>,
      <<8184, TailWords(PageSize, 0, 61585)>>,
      <<8184, LE16(8184, 1) @@ TailWords(PageSize, 0, 65410)>> }

\* meta pages: the record starts at byte 24, and with lower = 32 its first two
\* words are also taken as two item ids
MetaInputs ==
    {MkData(0, lower, k[1], k[1], 8196, <<>>, LE32(24, m) @@ LE32(28, W32(4)) @@ k[2]) :
        lower \in {24, 32}, k \in MetaKinds, m \in MagicSamples}

NsnSamples == { W32(0), W32(1), W32(2), [hi |-> 43981, lo |-> 291], [hi |-> 65535, lo |-> 65535] }

\* gist pages with the two words of nsn set
GistInputs ==
    {MkData(0, 24, 8176, 8176, 8196, <<>>,
            LE32(8176, a) @@ LE32(8180, b) @@ TailWords(PageSize, 0, 65409)) :
        a \in NsnSamples, b \in NsnSamples}

\* heap pages with one NORMAL item whose tuple header carries the given natts,
\* infomask and hoff
TupleSpans == { <<8136, 56>>, <<8136, 24>>, <<8000, 192>>, <<7900, 292>> }
NattsSamples == {0, 1, 8, 9, 64, 2047}
HoffSamples == {0, 23, 24, 32, 56, 255}

TupleInputs ==
    {MkData(0, 28, 7900, 8192, 8196, <<ItemRaw(LPNormal, sp[1], sp[2])>>,
            LE16(sp[1] + 18, natts) @@ LE16(sp[1] + 20, mask) @@ ((sp[1] + 22) :> hoff)) :
        sp \in TupleSpans, natts \in NattsSamples, mask \in {0, 1}, hoff \in HoffSamples}

\* heap pages with one NORMAL item whose t_infomask is the given word: every
\* value of the two xmin bits, alone and among other bits
InfomaskSamples ==
    {x * 256 + y : x \in {0, 1, 2, 3, 4, 5, 6, 7, 252, 253, 254, 255}, y \in {0, 2, 254}}

InfomaskInputs ==
    {MkData(0, 28, 8136, 8192, 8196, <<ItemRaw(LPNormal, 8136, 56)>>,
            LE16(8136 + 20, mask) @@ ((8136 + 22) :> 24)) : mask \in InfomaskSamples}

\* empty heap pages whose pd_flags is the given word: every value of the three
\* known bits, alone and under unknown bits
PdFlagsSamples == {hi * 8 + low : hi \in {0, 1, 31, 4096, 8191}, low \in 0..7}

PdFlagsInputs ==
    {MkData(0, 24, 8192, 8192, 8196, <<>>, LE16(10, f)) : f \in PdFlagsSamples}

\* hash pages whose hasho_flag is the given word: each page kind alone, the
\* meta bit with other kind bits, and kinds under the state bits
HashFlagSamples == {0, 1, 2, 4, 8, 9, 10, 12, 15, 16, 24, 25, 136, 240, 65528, 65535}

HashFlagInputs ==
    {MkData(0, 24, 8176, 8176, 8196, <<>>, LE32(24, m) @@ TailWords(PageSize, f, HashPageID)) :
        f \in HashFlagSamples, m \in {W32(0), W32(HashMagic)}}

DecodeInputs ==
    HeaderInputs \cup LowerInputs \cup ItemInputs \cup MetaInputs \cup GistInputs \cup TupleInputs
        \cup InfomaskInputs \cup PdFlagsInputs \cup HashFlagInputs

----------------------------------------------------------------------------
(* ReadPage and the REPL of main *)

\* the whole page that starts at byte `offset` of the file, if there is one:
\* f.Seek(offset) then io.ReadFull of PageSize bytes
PageAt(f, offset) ==
    IF offset >= 0 /\ offset % PageSize = 0 /\ (offset \div PageSize) + 1 \in DOMAIN f
    THEN <<f[(offset \div PageSize) + 1]>>
    ELSE <<>>

\* a plausible slip: the seek lands one page further
ReadPageSeeksPastPage(f, pageNum, ioOK) ==
    LET offset == (pageNum + 1) * PageSize
        got == PageAt(f, offset)
    IN
    IF ~ioOK \/ got = <<>>
    THEN [err |-> TRUE, panic |-> "", lastFetch |-> 0, slices |-> <<>>, page |-> Nil,
          offset |-> offset]
    ELSE LET r == ParsePage(got[1]) IN
         [err |-> FALSE, panic |-> r.panic, lastFetch |-> r.lastFetch, slices |-> r.slices,
          page |-> IF r.panic = "" THEN [r.page EXCEPT !.PageNum = pageNum] ELSE Nil,
          offset |-> offset]

\* a plausible slip: p.PageNum left as ParsePage set it
ReadPageNoPageNum(f, pageNum, ioOK) ==
    LET offset == pageNum * PageSize
        got == PageAt(f, offset)
    IN
    IF ~ioOK \/ got = <<>>
    THEN [err |-> TRUE, panic |-> "", lastFetch |-> 0, slices |-> <<>>, page |-> Nil,
          offset |-> offset]
    ELSE LET r == ParsePage(got[1]) IN
         [err |-> FALSE, panic |-> r.panic, lastFetch |-> r.lastFetch, slices |-> r.slices,
          page |-> IF r.panic = "" THEN r.page ELSE Nil,
          offset |-> offset]

\* ReadPage(filename, pageNum). ioOK: open, seek and the full read all succeed.
\* err: the error return; panic: ParsePage did not return.
ReadPage(f, pageNum, ioOK) ==
    LET offset == pageNum * PageSize
        got == PageAt(f, offset)
    IN
    IF ~ioOK \/ got = <<>>
    THEN [err |-> TRUE, panic |-> "", lastFetch |-> 0, slices |-> <<>>, page |-> Nil,
          offset |-> offset]
    ELSE LET r == ParsePage(got[1]) IN
         [err |-> FALSE, panic |-> r.panic, lastFetch |-> r.lastFetch, slices |-> r.slices,
          page |-> IF r.panic = "" THEN [r.page EXCEPT !.PageNum = pageNum] ELSE Nil,
          offset |-> offset]

Digits == {"0", "1", "2", "3", "4", "5", "6", "7", "8", "9"}

DigitVal(c) ==
    CASE c = "0" -> 0 [] c = "1" -> 1 [] c = "2" -> 2 [] c = "3" -> 3 [] c = "4" -> 4
      [] c = "5" -> 5 [] c = "6" -> 6 [] c = "7" -> 7 [] c = "8" -> 8 [] c = "9" -> 9

RECURSIVE DecVal(_)
DecVal(ds) == IF ds = <<>> THEN 0 ELSE DecVal(SubSeq(ds, 1, Len(ds) - 1)) * 10 + DigitVal(ds[Len(ds)])

\* a plausible slip: the sign is skipped but not applied
AtoiDropsSign(tok) ==
    LET signed == tok # <<>> /\ tok[1] \in {"+", "-"}
        body == IF signed THEN Tail(tok) ELSE tok
        ok == body # <<>> /\ \A i \in 1..Len(body) : body[i] \in Digits
    IN IF ~ok THEN [err |-> TRUE, n |-> 0] ELSE [err |-> FALSE, n |-> DecVal(body)]

Atoi(tok) ==
    LET signed == tok # <<>> /\ tok[1] \in {"+", "-"}
        body == IF signed THEN Tail(tok) ELSE tok
        ok == body # <<>> /\ \A i \in 1..Len(body) : body[i] \in Digits
    IN IF ~ok THEN [err |-> TRUE, n |-> 0]
       ELSE [err |-> FALSE, n |-> IF tok[1] = "-" THEN 0 - DecVal(body) ELSE DecVal(body)]

\* arguments typed after "page"
Tokens ==
    { <<"0">>, <<"1">>, <<"2">>, <<"3">>, <<"+", "1">>, <<"-", "1">>, <<"x">>, <<"1", "x">>, <<"-">> }

\* pages the REPL's file is made of
ReplPages ==
    { MkData(0, 28, 8136, 8192, 8196, <<ItemRaw(LPNormal, 8136, 56)>>, <<>>),
      MkData(0, 28, 8160, 8176, 8196, <<ItemRaw(LPNormal, 8160, 16)>>, TailWords(PageSize, 3, 0)),
      MkData(0, 8196, 8192, 8192, 8196, <<>>, <<>>),
      MkData(0, 28, 8180, 8192, 8196, <<ItemRaw(LPNormal, 8180, 12)>>, <<>>) }

Files == SeqsUpTo(ReplPages, MaxPages)

FileSize == Len(file) * PageSize + tailBytes

Exit(code, o) ==
    /\ pc' = "exited"
    /\ exitCode' = code
    /\ out' = o

\* main up to the first prompt: argument check, Stat, page count, type
\* detection from page 0, loading page 0.
Start ==
    /\ pc = "start"
    /\ \E io1 \in BOOLEAN, io2 \in BOOLEAN :
       \E pg0 \in {ReadPage(file, 0, io1)}, ld \in {ReadPage(file, 0, io2)} :
        LET tp == FileSize \div PageSize
            warning == FileSize % PageSize # 0
            o == [cmd |-> "start", warning |-> warning, loaded |-> FALSE, err |-> FALSE,
                  lastFetch |-> 0, slices |-> <<>>, panic |-> FALSE]
        IN
        IF ~argGiven \/ ~statOK
        THEN Exit(1, o) /\ UNCHANGED <<totalPages, currentPage, page>>
        ELSE IF tp > 0 /\ pg0.panic # ""
        THEN /\ Exit(PanicExit, [o EXCEPT !.panic = TRUE, !.lastFetch = pg0.lastFetch,
                                          !.slices = pg0.slices])
             /\ totalPages' = tp
             /\ UNCHANGED <<currentPage, page>>
        ELSE IF tp > 0 /\ ld.panic # ""
        THEN /\ Exit(PanicExit, [o EXCEPT !.panic = TRUE, !.lastFetch = ld.lastFetch,
                                          !.slices = ld.slices])
             /\ totalPages' = tp
             /\ UNCHANGED <<currentPage, page>>
        ELSE /\ pc' = "prompt"
             /\ totalPages' = tp
             /\ currentPage' = 0
             /\ page' = IF tp > 0 THEN ld.page ELSE Nil
             /\ out' = [o EXCEPT !.loaded = tp > 0 /\ ~ld.err, !.err = tp > 0 /\ ld.err,
                                 !.lastFetch = ld.lastFetch, !.slices = ld.slices]
             /\ UNCHANGED exitCode
    /\ UNCHANGED <<argGiven, statOK, file, tailBytes>>

Frame == UNCHANGED <<argGiven, statOK, file, tailBytes, totalPages>>

\* "quit", "exit", "q"
Quit ==
    /\ pc = "prompt"
    /\ Exit(0, [cmd |-> "quit", panic |-> FALSE])
    /\ UNCHANGED <<currentPage, page>> /\ Frame

\* scanner.Scan() returns false: end of input
EndOfInput ==
    /\ pc = "prompt"
    /\ Exit(0, [cmd |-> "eof", panic |-> FALSE])
    /\ UNCHANGED <<currentPage, page>> /\ Frame

\* "help", an unknown command, or an empty line: print and prompt again
Help ==
    /\ pc = "prompt"
    /\ \E c \in {"help", "unknown", "empty"} : out' = [cmd |-> c, panic |-> FALSE]
    /\ UNCHANGED <<pc, currentPage, page, exitCode>> /\ Frame

\* "page" without an argument: prints page.Detected of the loaded page
PageShow ==
    /\ pc = "prompt"
    /\ IF page = Nil
       THEN Exit(PanicExit, [cmd |-> "page", panic |-> TRUE])
       ELSE /\ out' = [cmd |-> "page", panic |-> FALSE, current |-> currentPage,
                       total |-> totalPages, detected |-> page.Detected]
            /\ UNCHANGED <<pc, exitCode>>
    /\ UNCHANGED <<currentPage, page>> /\ Frame

\* "page <tok>"
PageSelect ==
    /\ pc = "prompt"
    /\ \E tok \in Tokens, ioOK \in BOOLEAN :
       \E a \in {Atoi(tok)} :
       \E r \in {ReadPage(file, a.n, ioOK)} :
        LET o == [cmd |-> "page", panic |-> FALSE, tok |-> tok, rejected |-> FALSE,
                  read |-> FALSE, err |-> FALSE, lastFetch |-> 0, slices |-> <<>>,
                  offset |-> 0]
        IN
        IF a.err \/ a.n < 0 \/ a.n >= totalPages
        THEN /\ out' = [o EXCEPT !.rejected = TRUE]
             /\ UNCHANGED <<pc, currentPage, page, exitCode>>
        ELSE IF r.panic # ""
        THEN /\ Exit(PanicExit, [o EXCEPT !.panic = TRUE, !.read = TRUE,
                                          !.lastFetch = r.lastFetch, !.slices = r.slices,
                                          !.offset = r.offset])
             /\ UNCHANGED <<currentPage, page>>
        ELSE IF r.err
        THEN /\ page' = r.page
             /\ out' = [o EXCEPT !.read = TRUE, !.err = TRUE,
                                 !.offset = r.offset]
             /\ UNCHANGED <<pc, currentPage, exitCode>>
        ELSE /\ page' = r.page
             /\ currentPage' = a.n
             /\ out' = [o EXCEPT !.read = TRUE, !.lastFetch = r.lastFetch, !.slices = r.slices,
                                 !.offset = r.offset]
             /\ UNCHANGED <<pc, exitCode>>
    /\ Frame

\* "cat", "format", "info", "data" on the loaded page
Render(o) ==
    IF page = Nil
    THEN /\ out' = [cmd |-> o.cmd, panic |-> FALSE, noPage |-> TRUE]
         /\ UNCHANGED <<pc, exitCode>>
    ELSE IF o.panic
    THEN Exit(PanicExit, o)
    ELSE /\ out' = o
         /\ UNCHANGED <<pc, exitCode>>

Cat ==
    /\ pc = "prompt"
    /\ Render(IF page = Nil THEN [cmd |-> "cat", panic |-> FALSE] ELSE CmdCat(page))
    /\ UNCHANGED <<currentPage, page>> /\ Frame

Format ==
    /\ pc = "prompt"
    /\ Render(IF page = Nil THEN [cmd |-> "format", panic |-> FALSE] ELSE CmdFormat(page))
    /\ UNCHANGED <<currentPage, page>> /\ Frame

Info ==
    /\ pc = "prompt"
    /\ Render(IF page = Nil THEN [cmd |-> "info", panic |-> FALSE] ELSE CmdInfo(page))
    /\ UNCHANGED <<currentPage, page>> /\ Frame

Data ==
    /\ pc = "prompt"
    /\ Render(IF page = Nil THEN [cmd |-> "data", panic |-> FALSE] ELSE CmdData(page))
    /\ UNCHANGED <<currentPage, page>> /\ Frame

\* "pages": one line per page; a read error gives an error line and the loop
\* goes on; a panic in ParsePage ends the process.
PageLine(i, r) ==
    IF r.err THEN [page |-> i, error |-> TRUE]
    ELSE IF r.panic # "" THEN [page |-> i, error |-> FALSE, panic |-> TRUE]
    ELSE [page |-> i, error |-> FALSE, type |-> r.page.Detected,
          items |-> NumItems(r.page.Header.Lower), free |-> FreeSpace(r.page.Header),
          special |-> SpecialSize(r.page)]

Pages ==
    /\ pc = "prompt"
    /\ \E failed \in SUBSET (0..(totalPages - 1)) :
       \E rs \in {[i \in 0..(totalPages - 1) |-> ReadPage(file, i, i \notin failed)]} :
        LET rd(i) == rs[i]
            bad == {i \in 0..(totalPages - 1) : rd(i).panic # ""}
            last == IF bad = {} THEN totalPages - 1
                    ELSE CHOOSE i \in bad : \A j \in bad : i <= j
            lines == [k \in 1..(last + 1) |-> PageLine(k - 1, rd(k - 1))]
        IN IF bad # {}
           THEN Exit(PanicExit, [cmd |-> "pages", panic |-> TRUE, lines |-> lines])
           ELSE /\ out' = [cmd |-> "pages", panic |-> FALSE, lines |-> lines]
                /\ UNCHANGED <<pc, exitCode>>
    /\ UNCHANGED <<currentPage, page>> /\ Frame

Init ==
    /\ pc = "start"
    /\ argGiven \in BOOLEAN
    /\ statOK \in {b \in BOOLEAN : argGiven \/ ~b}
    /\ file \in Files
    /\ tailBytes \in {0, 100}
    /\ totalPages = 0
    /\ currentPage = 0
    /\ page = Nil
    /\ exitCode = NoExit
    /\ out = [cmd |-> "none", panic |-> FALSE]

Next ==
    \/ Start
    \/ Quit
    \/ EndOfInput
    \/ Help
    \/ PageShow
    \/ PageSelect
    \/ Cat
    \/ Format
    \/ Info
    \/ Data
    \/ Pages

Spec == Init /\ [][Next]_vars

----------------------------------------------------------------------------
(* The decoder on its own: one buffer, parsed once, then rendered *)

DecodeInit ==
    /\ pc = "raw"
    /\ argGiven = TRUE
    /\ statOK = TRUE
    /\ file \in {<<d>> : d \in DecodeInputs}
    /\ tailBytes = 0
    /\ totalPages = 1
    /\ currentPage = 0
    /\ page = Nil
    /\ exitCode = NoExit
    /\ out = [cmd |-> "none", panic |-> FALSE]

DecodeFrame == UNCHANGED <<argGiven, statOK, file, tailBytes, totalPages, currentPage>>

DecodeParse ==
    /\ pc = "raw"
    /\ LET r == ParsePage(file[1]) IN
        /\ out' = [cmd |-> "parse", panic |-> r.panic # "", where |-> r.panic,
                   lastFetch |-> r.lastFetch, slices |-> r.slices]
        /\ page' = r.page
        /\ pc' = IF r.panic = "" THEN "parsed" ELSE "exited"
        /\ exitCode' = IF r.panic = "" THEN exitCode ELSE PanicExit
    /\ DecodeFrame

DecodeRender(o) ==
    /\ pc = "parsed"
    /\ out' = o
    /\ pc' = IF o.panic THEN "exited" ELSE pc
    /\ exitCode' = IF o.panic THEN PanicExit ELSE exitCode
    /\ UNCHANGED page
    /\ DecodeFrame

DecodeCat == pc = "parsed" /\ DecodeRender(CmdCat(page))
DecodeFormat == pc = "parsed" /\ DecodeRender(CmdFormat(page))
DecodeInfo == pc = "parsed" /\ DecodeRender(CmdInfo(page))
DecodeData == pc = "parsed" /\ DecodeRender(CmdData(page))

\* the line "pages" prints for this buffer
DecodePages ==
    /\ pc = "parsed"
    /\ DecodeRender([cmd |-> "pages", panic |-> FALSE,
                     lines |-> <<PageLine(0, [err |-> FALSE, panic |-> "", page |-> page])>>])

DecodeNext ==
    \/ DecodeParse
    \/ DecodeCat
    \/ DecodeFormat
    \/ DecodeInfo
    \/ DecodeData
    \/ DecodePages

DecodeSpec == DecodeInit /\ [][DecodeNext]_vars

----------------------------------------------------------------------------
(* Claims about the decoder, checked under DecodeSpec *)

\* C1: for every buffer and every value of lower, ParsePage completes and no
\* item-id entry is fetched from a range that ends past byte 8191.
C1_ItemFetchesInBuffer ==
    out.cmd = "parse" => (out.where # "items" /\ out.lastFetch <= PageSize)

\* C2: on a page routed to the heap-tuple decoder, decoding the 23-byte tuple
\* header of any item never reaches a byte at position >= 8192 (so the header
\* decoder is never refused a range).
C2_HeapHeaderInBuffer ==
    (out.cmd = "data" /\ out.path = "heap") =>
        \A i \in 1..Len(out.items) :
            /\ ~out.items[i].panic
            /\ \A k \in 1..Len(out.items[i].hdrReads) : out.items[i].hdrReads[k][2] <= PageSize

\* C3: for every special and pagesize_version, the classifier and SpecialData
\* never slice the buffer at a start or end beyond 8192, so classification and
\* info complete.
C3_SpecialSlicesInBuffer ==
    out.cmd \in {"parse", "info"} =>
        /\ ~out.panic \/ (out.cmd = "parse" /\ out.where = "items")
        /\ \A k \in 1..Len(out.slices) :
              out.slices[k][1] <= PageSize /\ out.slices[k][2] <= PageSize

\* C4: whatever pagesize_version says, the special-region size is 8192 - special
\* and format lays the page out against a page size of 8192.
C4_Addresses8192 ==
    /\ (out.cmd = "info" /\ ~out.panic) => out.specialSize = PageSize - page.Header.Special
    /\ out.cmd = "format" => out.pageSize = PageSize

\* The decision order of the classifier as the specification words it, on the
\* special offset and the 16-bit little-endian words of the buffer.
SpecWord(data, pos) == ByteAt(data, pos) + 256 * ByteAt(data, pos + 1)

SpecPageType(special, data) ==
    LET size == 8192 - special
        last == SpecWord(data, 8190)
        flagWord == SpecWord(data, special + 12)
    IN
    IF size = 0 THEN "heap"
    ELSE IF special >= 8192 \/ special < 24 THEN "unknown"
    ELSE IF size = 8 THEN
        (IF last \in {61585, 61586, 61587} THEN "brin"
         ELSE IF last = 65410 THEN "spgist"
         ELSE IF last \div 256 = 0 THEN "gin"
         ELSE "unknown")
    ELSE IF size = 16 THEN
        (IF last = 65408 THEN "hash"
         ELSE IF last = 65409 THEN "gist"
         ELSE IF flagWord < 512 THEN "btree"
         ELSE "unknown")
    ELSE "unknown"

PageTypeString(pt) ==
    CASE pt = PageTypeHeap -> "heap"
      [] pt = PageTypeBTree -> "btree"
      [] pt = PageTypeHash -> "hash"
      [] pt = PageTypeGiST -> "gist"
      [] pt = PageTypeGIN -> "gin"
      [] pt = PageTypeSPGiST -> "spgist"
      [] pt = PageTypeBRIN -> "brin"
      [] OTHER -> "unknown"

HeaderSaysStandardSize(data) == SpecWord(data, 18) \div 256 \in {0, 32}

\* C5: on a page whose header page size is 8192 or 0 the classifier returns the
\* one type the specification's decision order gives.
C5_ClassifierDecisionOrder ==
    (out.cmd = "parse" /\ HeaderSaysStandardSize(file[1])) =>
        /\ out.where # "special"
        /\ page # Nil =>
              PageTypeString(page.Detected) = SpecPageType(SpecWord(file[1], 16), file[1])

C5_Witness ==
    /\ out.cmd = "parse"
    /\ page # Nil
    /\ HeaderSaysStandardSize(file[1])
    /\ page.Detected = PageTypeGIN
    /\ SpecWord(file[1], 8190) = 0

\* C6: a page is detected as heap only if its special-region size (as info
\* reports it) is 0, and data on a page detected as heap never takes the
\* index-tuple pathway.
C6_HeapNeverIndexPath ==
    (page # Nil /\ page.Detected = PageTypeHeap) =>
        /\ SpecialSize(page) = 0
        /\ out.cmd = "data" => (out.path = "heap" /\ ~out.metaSkipped)

C6_Witness ==
    /\ page # Nil
    /\ page.Detected = PageTypeHeap
    /\ out.cmd = "data"
    /\ \E i \in 1..Len(out.items) : out.items[i].kind = "TUPLE"

\* C7: a NORMAL item with offset + length > 8192 or offset < upper is reported
\* as corrupt (an error or no-storage line, not a decoded tuple) and none of its
\* bytes is read.
C7_CorruptNormalNotRead ==
    out.cmd = "data" =>
        \A i \in 1..Len(out.items) :
            LET lp == page.Items[i] IN
            (Flags(lp) = LPNormal
                /\ (Offset(lp) + Length(lp) > PageSize \/ Offset(lp) < page.Header.Upper)) =>
                /\ out.items[i].kind \in {"ERROR_BEYOND", "NO_STORAGE"}
                /\ out.items[i].hdrReads = <<>>
                /\ out.items[i].dataReads = <<>>

----------------------------------------------------------------------------
(* Claims about the REPL, checked under Spec *)

\* C8: when the read fails during `page <n>` with n in range, the current page
\* number and the previously loaded page are both unchanged.
C8_FailedReadKeepsPage ==
    [][(pc = "prompt" /\ pc' = "prompt" /\ out'.cmd = "page"
            /\ "tok" \in DOMAIN out' /\ out'.read /\ out'.err)
        => (currentPage' = currentPage /\ page' = page)]_vars

\* what the typed argument denotes: an integer or nothing
TokenInt ==
    (<<"0">> :> 0) @@ (<<"1">> :> 1) @@ (<<"2">> :> 2) @@ (<<"3">> :> 3)
        @@ (<<"+", "1">> :> 1) @@ (<<"-", "1">> :> -1)

ValidPageArg(tok) ==
    tok \in DOMAIN TokenInt /\ TokenInt[tok] >= 0 /\ TokenInt[tok] < totalPages

\* C9: `page <n>` is rejected whenever n is not an integer, n < 0 or n >= the
\* page count; a rejection reads nothing and leaves the current page number and
\* the loaded page unchanged; when n is in range and the read succeeds the
\* current page number becomes n and the loaded page is page n of the file.
C9_PageSelect ==
    [][(pc = "prompt" /\ out'.cmd = "page" /\ "tok" \in DOMAIN out')
        => /\ out'.rejected <=> ~ValidPageArg(out'.tok)
           /\ out'.rejected => (~out'.read /\ currentPage' = currentPage /\ page' = page
                                   /\ pc' = "prompt")
           /\ (out'.read /\ ~out'.err /\ ~out'.panic)
                 => /\ currentPage' = TokenInt[out'.tok]
                    /\ page' # Nil
                    /\ page'.PageNum = TokenInt[out'.tok]
                    /\ page'.Data = file[TokenInt[out'.tok] + 1]]_vars

C9_Witness ==
    /\ pc = "prompt"
    /\ out.cmd = "page"
    /\ "tok" \in DOMAIN out
    /\ out.read /\ ~out.err
    /\ currentPage = 1
    /\ page # Nil
    /\ page.PageNum = 1

\* C10: the process exits with status 1 when the argument is missing or the
\* file cannot be read, and with status 0 in every other case.
C10_ExitCodes ==
    pc = "exited" => exitCode = (IF ~argGiven \/ ~statOK THEN 1 ELSE 0)

\* C11: the sizes of the regions format reports (empty regions skipped) sum to
\* the page size format reports.
C11_FormatRegionsSum ==
    out.cmd = "format" =>
        SumSeq([i \in 1..Len(out.regions) |-> out.regions[i][3]]) = out.pageSize

\* 32-bit shift left and bitwise or, on the two 16-bit halves
RECURSIVE BitOr(_, _)
BitOr(a, b) ==
    IF a = 0 THEN b ELSE IF b = 0 THEN a
    ELSE (IF a % 2 = 1 \/ b % 2 = 1 THEN 1 ELSE 0) + 2 * BitOr(a \div 2, b \div 2)

Or32(a, b) == [lo |-> BitOr(a.lo, b.lo), hi |-> BitOr(a.hi, b.hi)]

Shl32(w, k) ==
    IF k >= 16 THEN [lo |-> 0, hi |-> ((w.lo % (2 ^ (32 - k))) * (2 ^ (k - 16))) % 65536]
    ELSE [lo |-> ((w.lo % (2 ^ (16 - k))) * (2 ^ k)) % 65536,
          hi |-> ((w.hi % (2 ^ (16 - k))) * (2 ^ k) + w.lo \div (2 ^ (16 - k))) % 65536]

Recompose(status, offset, length) ==
    Or32(Or32(Shl32(W32(status), 15), W32(offset)), Shl32(W32(length), 17))

C13_ItemCount ==
    page # Nil =>
        LET lower == SpecWord(page.Data, 12)
            n == IF lower > 24 THEN (lower - 24) \div 4 ELSE 0
        IN /\ Len(page.Items) = n
           /\ \A i \in 1..Len(page.Items) :
                 page.Items[i].Raw = [lo |-> SpecWord(page.Data, 24 + 4 * (i - 1)),
                                      hi |-> SpecWord(page.Data, 26 + 4 * (i - 1))]
           /\ out.cmd \in {"info", "format"} => out.numItems = Len(page.Items)
           /\ out.cmd = "pages" => out.lines[1].items = Len(page.Items)

C13_Witness ==
    /\ page # Nil
    /\ SpecWord(page.Data, 12) = 35
    /\ Len(page.Items) = 2
    /\ out.cmd = "pages"
    /\ out.lines[1].items = 2

\* the fields of item i (1-based) as the bytes of the buffer give them
RawStatus(data, i) ==
    SpecWord(data, 20 + 4 * i) \div 32768 + 2 * (SpecWord(data, 22 + 4 * i) % 2)

RawOffset(data, i) == SpecWord(data, 20 + 4 * i) % 32768

RawLength(data, i) == SpecWord(data, 22 + 4 * i) \div 2

\* C14: in both pathways of data, an UNUSED item, a REDIRECT item and a DEAD
\* item of length 0 cause no tuple bytes to be read, and a REDIRECT item is
\* reported as redirecting to the item number in its offset field.
C14_NoStorageItemsNotRead ==
    (out.cmd = "data" /\ page # Nil) =>
        \A i \in 1..Len(out.items) :
            LET st == RawStatus(page.Data, i)
                it == out.items[i]
            IN /\ (st \in {0, 2} \/ (st = 3 /\ RawLength(page.Data, i) = 0)) =>
                      /\ it.hdrReads = <<>>
                      /\ it.bitmapReads = {}
                      /\ it.dataReads = <<>>
                      /\ ~it.panic
               /\ st = 2 => (it.kind = "REDIRECT" /\ it.redirect = RawOffset(page.Data, i))

C14_Witness ==
    /\ out.cmd = "data"
    /\ page # Nil
    /\ out.path = "index"
    /\ Len(out.items) >= 1
    /\ RawStatus(page.Data, 1) = 2
    /\ RawOffset(page.Data, 1) = 8136
    /\ RawLength(page.Data, 1) = 56
    /\ out.items[1].kind = "REDIRECT"
    /\ out.items[1].redirect = 8136

\* whether the special region of a page flags it as the meta page of its
\* access method, on the bytes of the buffer
SpecFlaggedMeta(p) ==
    LET sp == SpecWord(p.Data, 16)
        bit(w, k) == (w \div (2 ^ k)) % 2 = 1
    IN CASE p.Detected = PageTypeBTree -> bit(SpecWord(p.Data, sp + 12), 3)
         [] p.Detected = PageTypeHash -> bit(SpecWord(p.Data, sp + 12), 3)
         [] p.Detected = PageTypeGIN -> bit(SpecWord(p.Data, sp + 6), 3)
         [] p.Detected = PageTypeSPGiST -> bit(SpecWord(p.Data, sp), 0)
         [] p.Detected = PageTypeBRIN -> SpecWord(p.Data, sp + 6) = 61585
         [] OTHER -> FALSE

\* C15: on an index page flagged as a meta page, data prints the line-pointer
\* table for every item and decodes no item as an index tuple.
C15_MetaPageItemsNotDecoded ==
    (out.cmd = "data" /\ page # Nil /\ SpecFlaggedMeta(page)) =>
        /\ ~out.panic
        /\ Len(out.table) = Len(page.Items)
        /\ \A i \in 1..Len(out.table) : out.table[i].raw = page.Items[i].Raw
        /\ out.path = "index"
        /\ out.items = <<>>

C15_Witness ==
    /\ out.cmd = "data"
    /\ page # Nil
    /\ page.Detected = PageTypeBTree
    /\ SpecFlaggedMeta(page)
    /\ Len(page.Items) = 2
    /\ RawStatus(page.Data, 1) = 1
    /\ RawOffset(page.Data, 1) = 8136
    /\ RawLength(page.Data, 1) = 56
    /\ Len(out.table) = 2

\* C16: info decodes a meta record, from byte 24, exactly when the special
\* region flags the page as a btree, hash, gin or brin meta page.
C16_MetaDecodedIffFlagged ==
    (out.cmd = "info" /\ ~out.panic /\ page # Nil) =>
        LET flagged == page.Detected \in {PageTypeBTree, PageTypeHash, PageTypeGIN, PageTypeBRIN}
                          /\ SpecFlaggedMeta(page)
        IN /\ (out.meta.kind # "none") <=> flagged
           /\ flagged => /\ out.meta.kind = PageTypeString(page.Detected)
                         /\ out.meta.start = 24

C16_Witness ==
    /\ out.cmd = "info"
    /\ page # Nil
    /\ page.Detected = PageTypeHash
    /\ SpecFlaggedMeta(page)
    /\ out.meta.kind = "hash"
    /\ out.meta.start = 24

\* the magic word at byte 24, and the names of the fields after it
RawMagic(p) == [lo |-> SpecWord(p.Data, 24), hi |-> SpecWord(p.Data, 26)]

MetaFieldNames(kind) ==
    CASE kind = "btree" -> {"version", "root", "level", "fastroot", "fastlevel"}
      [] kind = "hash" -> {"version", "ntuples", "ffactor", "bsize", "bmsize", "bmshift",
                           "maxbucket", "highmask", "lowmask", "ovflpoint", "firstfree", "nmaps"}
      [] kind = "gin" -> {"head", "tail", "tailFreeSize", "nPendingPages", "nPendingHeapTuples",
                          "nTotalPages", "nEntryPages", "nDataPages", "nEntries"}
      [] kind = "brin" -> {"version", "pagesPerRange", "lastRevmapPage"}
      [] OTHER -> {}

MetaMagic(kind) ==
    CASE kind = "btree" -> [hi |-> 5, lo |-> 12642]
      [] kind = "hash" -> [hi |-> 1604, lo |-> 1600]
      [] kind = "brin" -> [hi |-> 43024, lo |-> 40186]

\* C17 as stated: each of the four meta decoders (gin included) shows valid or
\* INVALID from the magic word, and reports every field either way.
C17_EveryMetaDecoderHasIndicator ==
    (out.cmd = "info" /\ page # Nil /\ out.meta.kind # "none") =>
        /\ out.meta.indicator \in {"valid", "INVALID"}
        /\ DOMAIN out.meta.fields = MetaFieldNames(out.meta.kind)

\* C17, amended: the btree, hash and brin meta decoders show valid exactly when
\* the magic word at byte 24 is 0x053162, 0x6440640 or 0xA8109CFA, INVALID
\* otherwise; the gin meta decoder shows no indicator; all four report every
\* field of the record whatever the magic is.
C17_MagicIndicator ==
    (out.cmd = "info" /\ page # Nil /\ out.meta.kind # "none") =>
        /\ out.meta.kind \in {"btree", "hash", "brin"} =>
              out.meta.indicator = (IF RawMagic(page) = MetaMagic(out.meta.kind)
                                    THEN "valid" ELSE "INVALID")
        /\ out.meta.kind = "gin" => out.meta.indicator = "none"
        /\ DOMAIN out.meta.fields = MetaFieldNames(out.meta.kind)
        /\ out.meta.kind # "gin" =>
              out.meta.fields.version = [lo |-> SpecWord(page.Data, 28), hi |-> SpecWord(page.Data, 30)]

C17_Witness ==
    /\ out.cmd = "info"
    /\ page # Nil
    /\ out.meta.kind = "btree"
    /\ RawMagic(page) # MetaMagic("btree")
    /\ out.meta.indicator = "INVALID"
    /\ out.meta.fields.version = W32(4)

\* C18: the text before the slash of the gist nsn is the word stored in special
\* bytes 4..7, and the 8 hex digits after it are the word stored in bytes 0..3.
C18_GistNsnHighLow ==
    (out.cmd = "info" /\ page # Nil /\ out.gist.decoded) =>
        LET sp == SpecWord(page.Data, 16)
            first == [lo |-> SpecWord(page.Data, sp), hi |-> SpecWord(page.Data, sp + 2)]
            second == [lo |-> SpecWord(page.Data, sp + 4), hi |-> SpecWord(page.Data, sp + 6)]
        IN out.gist.nsn = HexX(second) \o <<"/">> \o Hex08X(first)

\* C19: when the nulls bit of infomask is set, the null-bitmap bytes exposed
\* are the ceil(natts/8) bytes from offset + 23, and each lies before the hoff
\* boundary and inside the item's storage.
C19_NullBitmapWithinHoff ==
    (out.cmd = "data" /\ page # Nil /\ out.path = "heap") =>
        \A i \in 1..Len(out.items) :
            LET off == RawOffset(page.Data, i)
                len == RawLength(page.Data, i)
                natts == SpecWord(page.Data, off + 18) % 2048
                hasNull == SpecWord(page.Data, off + 20) % 2 = 1
                hoff == ByteAt(page.Data, off + 22)
                it == out.items[i]
            IN (it.kind = "TUPLE" /\ ~it.panic /\ hasNull) =>
                  /\ it.bitmapReads = {off + 23 + b : b \in 0..((natts + 7) \div 8 - 1)}
                  /\ \A x \in it.bitmapReads :
                        /\ off + 23 <= x /\ x < off + hoff
                        /\ off <= x /\ x < off + len

\* C20: the user data of a decoded heap tuple is [offset + hoff,
\* min(offset + length, 8192)), sliced with start <= end, and nothing is read
\* or reported when hoff >= length.
C20_UserDataSlice ==
    (out.cmd = "data" /\ page # Nil /\ out.path = "heap") =>
        \A i \in 1..Len(out.items) :
            LET off == RawOffset(page.Data, i)
                len == RawLength(page.Data, i)
                hoff == ByteAt(page.Data, off + 22)
                end == IF off + len < 8192 THEN off + len ELSE 8192
                it == out.items[i]
            IN (it.kind = "TUPLE" /\ off + 23 <= 8192) =>
                  /\ ~it.panic
                  /\ \A k \in 1..Len(it.dataReads) :
                        /\ it.dataReads[k] = <<off + hoff, end>>
                        /\ it.dataReads[k][1] <= it.dataReads[k][2]
                  /\ (hoff >= len) <=> (it.dataReads = <<>>)

C20_Witness ==
    /\ out.cmd = "data"
    /\ page # Nil
    /\ out.path = "heap"
    /\ Len(out.items) = 1
    /\ out.items[1].kind = "TUPLE"
    /\ RawOffset(page.Data, 1) = 7900
    /\ RawLength(page.Data, 1) = 292
    /\ ByteAt(page.Data, 7922) = 255
    /\ out.items[1].dataReads # <<>>
    /\ out.items[1].dataReads[1] = <<8155, 8192>>

\* C21: for every t_infomask the flag-name list of a decoded heap tuple
\* carries at most one of XMIN_COMMITTED, XMIN_INVALID and XMIN_FROZEN, and
\* which one is fixed by infomask & 0x0300: 0x0100 gives XMIN_COMMITTED only,
\* 0x0200 XMIN_INVALID only, 0x0300 XMIN_FROZEN only, 0 none of them.
XminNames == {"XMIN_COMMITTED", "XMIN_INVALID", "XMIN_FROZEN"}

XminPositions(names) == {i \in 1..Len(names) : names[i] \in XminNames}

ExpectedXmin(m) ==
    LET two == (m \div 256) % 4 IN
    CASE two = 1 -> {"XMIN_COMMITTED"}
      [] two = 2 -> {"XMIN_INVALID"}
      [] two = 3 -> {"XMIN_FROZEN"}
      [] OTHER -> {}

DecodedHeapTuple(it) == it.kind = "TUPLE" /\ ~it.panic

C21_XminStateExclusive ==
    (out.cmd = "data" /\ out.path = "heap") =>
        \A i \in 1..Len(out.items) :
            DecodedHeapTuple(out.items[i]) =>
                LET names == out.items[i].infomaskFlags
                    at == XminPositions(names)
                IN /\ Cardinality(at) <= 1
                   /\ {names[j] : j \in at} = ExpectedXmin(out.items[i].infomask)

C21_Witness ==
    /\ out.cmd = "data" /\ out.path = "heap"
    /\ \E i \in 1..Len(out.items) :
        /\ DecodedHeapTuple(out.items[i])
        /\ out.items[i].infomask = 768 + 254
        /\ XminPositions(out.items[i].infomaskFlags) # {}

\* C22: for a file of s bytes the page count is floor(s / 8192) and the
\* warning is printed exactly when s is not a multiple of 8192; page n is read
\* from byte offset n * 8192; `page <n>` is accepted only for
\* n < floor(s / 8192), so a trailing partial page is never loaded.
IsFloorOfSize(n) == n * 8192 <= FileSize /\ FileSize < (n + 1) * 8192

C22_PageCountAndOffsets ==
    /\ (pc # "start" /\ argGiven /\ statOK) => IsFloorOfSize(totalPages)
    /\ (out.cmd = "start" /\ argGiven /\ statOK) => (out.warning <=> FileSize % 8192 # 0)
    /\ (out.cmd = "page" /\ "tok" \in DOMAIN out /\ out.read)
          => /\ out.offset = TokenInt[out.tok] * 8192
             /\ \E n \in 0..MaxPages : IsFloorOfSize(n) /\ TokenInt[out.tok] < n
    /\ page # Nil
          => /\ (page.PageNum + 1) * 8192 <= FileSize
             /\ page.Data = file[page.PageNum + 1]

C22_Witness ==
    /\ out.cmd = "page" /\ "tok" \in DOMAIN out
    /\ out.read /\ ~out.err
    /\ out.offset = 8192
    /\ tailBytes > 0
    /\ page # Nil /\ page.PageNum = 1

\* C23: FlagsString(f) depends on f & 0x0007 only: it is "none" exactly when
\* none of the three known bits is set, and otherwise the names of the set
\* bits in the order HAS_FREE_LINES, PAGE_FULL, ALL_VISIBLE joined by " | ";
\* unknown bits add and remove nothing.
FlagsText ==
    [low \in 0..7 |->
        CASE low = 0 -> <<"none">>
          [] low = 1 -> <<"HAS_FREE_LINES">>
          [] low = 2 -> <<"PAGE_FULL">>
          [] low = 3 -> <<"HAS_FREE_LINES", " | ", "PAGE_FULL">>
          [] low = 4 -> <<"ALL_VISIBLE">>
          [] low = 5 -> <<"HAS_FREE_LINES", " | ", "ALL_VISIBLE">>
          [] low = 6 -> <<"PAGE_FULL", " | ", "ALL_VISIBLE">>
          [] low = 7 -> <<"HAS_FREE_LINES", " | ", "PAGE_FULL", " | ", "ALL_VISIBLE">>]

C23_FlagsStringLowThreeBits ==
    out.cmd = "info" => out.flagsStr = FlagsText[out.flags % 8]

C23_Witness ==
    /\ out.cmd = "info"
    /\ out.flags = 8191 * 8 + 5
    /\ out.flagsStr = <<"HAS_FREE_LINES", " | ", "ALL_VISIBLE">>

\* C24: the proportional bar of `format` is exactly 60 columns wide for every
\* page, well formed or not: each region of positive size gets at least one
\* column, each region of size zero or less gets none, and the single
\* remainder pass brings the total to exactly 60.
BarSizes ==
    LET h == page.Header
        specialEnd == IF h.PageSizeVer \div 256 = 0 THEN 8192 ELSE (h.PageSizeVer \div 256) * 256
    IN <<24, h.Lower - 24, h.Upper - h.Lower, h.Special - h.Upper, specialEnd - h.Special>>

C24_BarIsSixtyColumns ==
    out.cmd = "format" =>
        /\ SumSeq(out.cols) = 60
        /\ \A i \in 1..5 : IF BarSizes[i] > 0 THEN out.cols[i] >= 1 ELSE out.cols[i] = 0

C24_Witness ==
    /\ out.cmd = "format"
    /\ \E i \in 1..5 : BarSizes[i] < 0
    /\ SumSeq(out.cols) = 60
    /\ LET pos == {i \in 1..5 : BarSizes[i] > 0}
           total == SumSeq([i \in 1..5 |-> IF i \in pos THEN BarSizes[i] ELSE 0])
       IN SumSeq([i \in 1..5 |->
                    IF i \in pos
                    THEN 1 + (BarSizes[i] * (60 - Cardinality(pos))) \div total ELSE 0]) < 60

\* C25: with no page loaded (a file of zero whole pages, page 0 unreadable at
\* startup, or after a failed page load) every command other than quit comes
\* back to the prompt without dereferencing the missing page: cat, format,
\* info and data report that no page is loaded and change nothing, help and
\* `page` with or without an argument complete.
C25_NoPageCommandsReturn ==
    [][(pc = "prompt" /\ page = Nil
            /\ out'.cmd \in {"cat", "format", "info", "data", "help", "unknown", "empty", "page"})
        => /\ pc' = "prompt"
           /\ exitCode' = NoExit
           /\ ~out'.panic
           /\ out'.cmd \in {"cat", "format", "info", "data"}
                 => (out'.noPage /\ page' = page /\ currentPage' = currentPage
                        /\ totalPages' = totalPages)]_vars

\* C26: whenever data leaves the items of a page undecoded because isMeta
\* reports a meta page, info on the same page decodes a meta record, for every
\* detected type (btree, hash, gin, spgist, brin).
C26_DataMetaImpliesInfoMeta ==
    [][(out.cmd = "data" /\ ~out.panic /\ out.metaSkipped /\ out'.cmd = "info" /\ page' = page)
        => (~out'.panic /\ out'.meta.kind # "none")]_vars

\* C27: a hash page is treated as the hash meta page (info decodes the meta
\* record, data leaves the items undecoded) exactly when the flag names of
\* hashFlags contain LH_META_PAGE, that is exactly when the low nibble of the
\* flag word is 0x8.
HashFlagWord == SpecWord(page.Data, SpecWord(page.Data, 16) + 12)

NamesMeta(names) == \E i \in 1..Len(names) : names[i] = "LH_META_PAGE"

C27_HashMetaIffLowNibbleEight ==
    (page # Nil /\ page.Detected = PageTypeHash /\ ~out.panic) =>
        /\ (out.cmd = "info" /\ out.hash.decoded)
              => /\ NamesMeta(out.hash.flagNames) <=> HashFlagWord % 16 = 8
                 /\ (out.meta.kind # "none") <=> NamesMeta(out.hash.flagNames)
        /\ out.cmd = "data" => (out.metaSkipped <=> HashFlagWord % 16 = 8)

\* C28: whenever a page is loaded its page number is the current page number
\* of the prompt, so cat, format, info and data render the page the prompt
\* names; the current page number changes only on a successful `page <n>`.
C28_LoadedPageIsCurrentPage ==
    /\ [](page # Nil => /\ page.PageNum = currentPage
                        /\ page.Data = file[currentPage + 1])
    /\ [][(pc = "prompt" /\ currentPage' # currentPage)
            => (out'.cmd = "page" /\ "tok" \in DOMAIN out' /\ out'.read /\ ~out'.err
                  /\ ~out'.panic /\ currentPage' = TokenInt[out'.tok])]_vars

C28_Witness ==
    /\ pc = "prompt"
    /\ out.cmd = "info" /\ ~out.panic
    /\ page # Nil
    /\ currentPage = 1
    /\ page.PageNum = 1
    /\ page.Data # file[1]

\* C29: on an index page that is not a meta page, ParseIndexTupleHeader is
\* invoked only for items with offset > 0, length >= 8 and
\* offset + length <= 8192, so the 8 header bytes and the key slice
\* [offset + 8, offset + length) lie inside the 8192-byte buffer; a shorter
\* item is shown as raw bytes bounded by its own length.
InBuffer(r) == 0 <= r[1] /\ r[1] <= r[2] /\ r[2] <= 8192

C29_IndexHeaderParsedInBuffer ==
    (out.cmd = "data" /\ page # Nil /\ out.path = "index" /\ ~out.metaSkipped) =>
        \A i \in 1..Len(out.items) :
            LET it == out.items[i]
                off == RawOffset(page.Data, i)
                len == RawLength(page.Data, i)
            IN /\ ~it.panic
               /\ it.hdrReads # <<>>
                     => /\ off > 0 /\ len >= 8 /\ off + len <= 8192
                        /\ \A k \in 1..Len(it.hdrReads) :
                              InBuffer(it.hdrReads[k]) /\ it.hdrReads[k][1] >= off
                        /\ \A k \in 1..Len(it.dataReads) :
                              it.dataReads[k] = <<off + 8, off + len>>
               /\ it.kind = "TOO_SHORT"
                     => /\ len < 8
                        /\ \A k \in 1..Len(it.dataReads) : it.dataReads[k] = <<off, off + len>>
                        /\ \A k \in 1..Len(it.dataReads) : InBuffer(it.dataReads[k])

C29_Witness ==
    /\ out.cmd = "data" /\ page # Nil /\ out.path = "index" /\ ~out.metaSkipped
    /\ Len(out.items) = 2
    /\ out.items[1].kind = "TOO_SHORT"
    /\ out.items[1].dataReads = << <<8180, 8184>> >>
    /\ out.items[2].kind = "TUPLE"
    /\ Len(out.items[2].hdrReads) = 5
    /\ out.items[2].dataReads # <<>>
    /\ RawOffset(page.Data, 2) + RawLength(page.Data, 2) = 8192

\* C30: pages leaves the current page number and the loaded page unchanged and
\* emits one line per page index 0..totalPages-1 in ascending order; a read
\* error on one page gives an error line for that page and the listing goes on
\* with the following pages.
C30_PagesListsEveryPage ==
    [][(pc = "prompt" /\ out'.cmd = "pages")
        => /\ currentPage' = currentPage
           /\ page' = page
           /\ pc' = "prompt"
           /\ Len(out'.lines) = totalPages
           /\ \A k \in 1..Len(out'.lines) : out'.lines[k].page = k - 1]_vars

====
